---- MODULE Spec2Model ----
(***************************************************************************)
(* Model of Vacation_Climate_Analysis/app.py: the calendar-date validator, *)
(* the three query helpers and the five Flask route handlers that use      *)
(* them.                                                                   *)
(*                                                                         *)
(* Strings are sequences of one-character strings, so that splitting,      *)
(* parsing, formatting and the text comparison done by the database are    *)
(* computed rather than assumed.  Temperatures and precipitation values    *)
(* are integers (floats in the program); a mean is kept as the exact pair  *)
(* <<sum, count>>, so that the mean of nothing, NaN, is <<0, 0>>.          *)
(***************************************************************************)
EXTENDS Integers, Sequences, FiniteSets, TLC

VARIABLES
    date,        \* validator development: the value handed to validate_date
    vresult,     \* validator development: what validate_date did with it
    store,       \* rows of the measurement table, in rowid order
    stations,    \* rows of the station table (station ids)
    route,       \* the route the request was dispatched to
    start,       \* <start> path segment of the request
    end,         \* <end> path segment of the request
    pc,          \* position of the handler
    session,     \* "none", "open" or "closed": the request's Session(engine)
    start_date,  \* date_range_metrics: validate_date(start)
    end_date,    \* date_range_metrics: validate_date(end)
    ma_station,  \* most_active_year_data: most_active_station(session)
    data,        \* the value returned by the query helper
    response,    \* what the request ended with: a body or the exception
    first,       \* repeated-call development: result of the first call
    second       \* repeated-call development: result of the second call

vars == <<date, vresult, store, stations, route, start, end, pc, session,
          start_date, end_date, ma_station, data, response, first, second>>

\* SQL NULL / Python None in a float column, and the float NaN: values outside
\* the range of the measurements of the model.
NULL == -1000
NaN == -2000
None == [kind |-> "none", exc |-> "", value |-> <<>>]

(***************************************************************************)
(* Python values and exceptions                                            *)
(***************************************************************************)
Ok(v) == [kind |-> "ok", exc |-> "", value |-> v]
Raise(e, msg) == [kind |-> "raise", exc |-> e, value |-> msg]

Str(chars) == [type |-> "str", chars |-> chars]
NotStr == [type |-> "int", chars |-> <<>>]

(***************************************************************************)
(* Characters                                                              *)
(***************************************************************************)
DigitChars == <<"0", "1", "2", "3", "4", "5", "6", "7", "8", "9">>

IsDigit(c) == \E i \in 1..10 : DigitChars[i] = c

DigitVal(c) == (CHOOSE i \in 1..10 : DigitChars[i] = c) - 1

IsSpace(c) == c = " "

\* Code points of the characters that occur in stored dates and bound
\* parameters; the database compares TEXT values byte by byte.
CharCode(c) ==
    CASE c = " " -> 32
      [] c = "+" -> 43
      [] c = "-" -> 45
      [] c = "." -> 46
      [] c = "/" -> 47
      [] IsDigit(c) -> 48 + DigitVal(c)
      [] c = ":" -> 58
      [] c = "_" -> 95
      [] OTHER -> 120

Pad2(n) == <<DigitChars[((n \div 10) % 10) + 1], DigitChars[(n % 10) + 1]>>

Pad4(n) == Pad2(n \div 100) \o Pad2(n % 100)

Pad6(n) == Pad2(n \div 10000) \o Pad4(n % 10000)

(***************************************************************************)
(* str.split('-') and int()                                                *)
(***************************************************************************)
RECURSIVE split(_, _)
\* s.split(sep): the pieces of s between occurrences of sep (always >= 1).
split(s, sep) ==
    IF \A i \in 1..Len(s) : s[i] # sep
    THEN <<s>>
    ELSE LET k == CHOOSE i \in 1..Len(s) :
                      /\ s[i] = sep
                      /\ \A j \in 1..(i - 1) : s[j] # sep
         IN  <<SubSeq(s, 1, k - 1)>> \o split(SubSeq(s, k + 1, Len(s)), sep)

RECURSIVE lstrip(_)
lstrip(s) == IF s # <<>> /\ IsSpace(Head(s)) THEN lstrip(Tail(s)) ELSE s

RECURSIVE rstrip(_)
rstrip(s) ==
    IF s # <<>> /\ IsSpace(s[Len(s)]) THEN rstrip(SubSeq(s, 1, Len(s) - 1)) ELSE s

RECURSIVE DigitsValue(_)
\* Value of a digit string that may hold single underscores between digits.
DigitsValue(s) ==
    IF s = <<>> THEN 0
    ELSE IF s[Len(s)] = "_" THEN DigitsValue(SubSeq(s, 1, Len(s) - 1))
    ELSE 10 * DigitsValue(SubSeq(s, 1, Len(s) - 1)) + DigitVal(s[Len(s)])

IntLiteralOk(s) ==
    /\ s # <<>>
    /\ IsDigit(s[1])
    /\ IsDigit(s[Len(s)])
    /\ \A i \in 1..Len(s) : IsDigit(s[i]) \/ s[i] = "_"
    /\ \A i \in 1..(Len(s) - 1) : ~(s[i] = "_" /\ s[i + 1] = "_")

\* int(piece) for a str: surrounding whitespace is stripped, one sign is
\* allowed, anything else that is not a decimal literal raises ValueError.
py_int(piece) ==
    LET t == rstrip(lstrip(piece))
        signed == t # <<>> /\ t[1] \in {"+", "-"}
        body == IF signed THEN Tail(t) ELSE t
    IN  IF ~IntLiteralOk(body) THEN Raise("ValueError", "invalid literal for int()")
        ELSE IF signed /\ t[1] = "-" THEN Ok(0 - DigitsValue(body))
        ELSE Ok(DigitsValue(body))

date_string_to_nums(date_string) ==
    LET pieces == split(date_string, "-")
        nums == [i \in 1..Len(pieces) |-> py_int(pieces[i])]
    IN  IF \E i \in 1..Len(pieces) : nums[i].kind = "raise"
        THEN Raise("ValueError", "invalid literal for int()")
        ELSE Ok([i \in 1..Len(pieces) |-> nums[i].value])

(***************************************************************************)
(* datetime                                                                *)
(***************************************************************************)
MINYEAR == 1
MAXYEAR == 9999

is_leap(y) == y % 4 = 0 /\ (y % 100 # 0 \/ y % 400 = 0)

DAYS_IN_MONTH == <<31, 28, 31, 30, 31, 30, 31, 31, 30, 31, 30, 31>>

days_in_month(y, m) == IF m = 2 /\ is_leap(y) THEN 29 ELSE DAYS_IN_MONTH[m]

Field(l, i) == IF i <= Len(l) THEN l[i] ELSE 0

\* dt.datetime(*l): year, month, day, then up to four time fields and
\* tzinfo.  More than eight positional arguments are refused first; the date
\* and time fields are range-checked next; an int tzinfo is refused last.
datetime(l) ==
    IF Len(l) < 3 \/ Len(l) > 8
    THEN Raise("TypeError", "datetime() arguments")
    ELSE IF l[1] < MINYEAR \/ l[1] > MAXYEAR THEN Raise("ValueError", "year is out of range")
    ELSE IF l[2] < 1 \/ l[2] > 12 THEN Raise("ValueError", "month must be in 1..12")
    ELSE IF l[3] < 1 \/ l[3] > days_in_month(l[1], l[2])
         THEN Raise("ValueError", "day is out of range for month")
    ELSE IF Field(l, 4) < 0 \/ Field(l, 4) > 23 THEN Raise("ValueError", "hour must be in 0..23")
    ELSE IF Field(l, 5) < 0 \/ Field(l, 5) > 59 THEN Raise("ValueError", "minute must be in 0..59")
    ELSE IF Field(l, 6) < 0 \/ Field(l, 6) > 59 THEN Raise("ValueError", "second must be in 0..59")
    ELSE IF Field(l, 7) < 0 \/ Field(l, 7) > 999999
         THEN Raise("ValueError", "microsecond must be in 0..999999")
    ELSE IF Len(l) = 8 THEN Raise("TypeError", "tzinfo argument must be None or of a tzinfo subclass")
    ELSE Ok([i \in 1..7 |-> Field(l, i)])

(***************************************************************************)
(* validate_date                                                           *)
(***************************************************************************)
re_fullmatch(s) ==
    /\ Len(s) = 10
    /\ \A i \in {1, 2, 3, 4, 6, 7, 9, 10} : IsDigit(s[i])
    /\ s[5] = "-"
    /\ s[8] = "-"

\* re.match(r"\d{4}-\d{2}-\d{2}", s): anchored at the start only.
re_match(s) ==
    /\ Len(s) >= 10
    /\ \A i \in {1, 2, 3, 4, 6, 7, 9, 10} : IsDigit(s[i])
    /\ s[5] = "-"
    /\ s[8] = "-"

leap_condition_no400(y) == y % 4 = 0 /\ ~(y % 100 = 0)

\* The condition of the if statement that sets month_lengths["2"] = 29.
leap_condition(y) ==
    y % 4 = 0 /\ ((y % 100 = 0 /\ y % 400 = 0) \/ ~(y % 100 = 0))

month_lengths_feb28(y) == [m \in 1..12 |-> DAYS_IN_MONTH[m]]

month_lengths(y) ==
    [m \in 1..12 |-> IF m = 2 /\ leap_condition(y) THEN 29 ELSE DAYS_IN_MONTH[m]]

validate_date(d) ==
    IF d.type # "str" THEN Raise("Exception", "That date was not a string")
    ELSE IF ~re_match(d.chars)
         THEN Raise("Exception", "That string date was not of the correct format")
    ELSE LET date_list == date_string_to_nums(d.chars) IN
         IF date_list.kind = "raise" THEN date_list
         ELSE LET l == date_list.value IN
              IF l[2] > 12 \/ l[2] < 1 THEN Raise("Exception", "That month does not exist")
              ELSE IF l[3] > month_lengths(l[1])[l[2]] \/ l[3] < 1
                   THEN Raise("Exception", "That is not a valid day")
              ELSE datetime(l)

(***************************************************************************)
(* Validator development: one call of validate_date on one input           *)
(***************************************************************************)
MaxMonth == 13
MaxDay == 32

Years == {0, 1, 1900, 2000, 2023, 2024, 2100, 9999}

Trailers ==
    { <<>>,
      <<" ">>,
      <<"5">>,
      <<"x">>,
      <<"-">>,
      <<"_", "5">>,
      <<"-", "5">>,
      <<"-", "2", "4">>,
      <<"-", "5", "-", "5", "-", "5", "-", "5", "-", "5">>,
      <<"-", "5", "-", "5", "-", "5", "-", "5", "-", "5", "-", "5">>,
      <<"-", "e", "x", "t", "r", "a", "-", "j", "u", "n", "k">> }

DateString(y, m, d) == Pad4(y) \o <<"-">> \o Pad2(m) \o <<"-">> \o Pad2(d)

Malformed ==
    { <<>>,
      <<"2", "0", "2", "0", "-", "1", "-", "0", "1">>,
      <<"2", "0", "2", "0", "/", "0", "1", "/", "0", "1">>,
      <<"x", "2", "0", "2", "0", "-", "0", "1", "-", "0", "1">> }

ValidateInputs ==
    { Str(DateString(y, m, d) \o t) :
        y \in Years, m \in 0..MaxMonth, d \in 0..MaxDay, t \in Trailers }
    \cup { Str(s) : s \in Malformed }
    \cup { NotStr }

AppIdle ==
    /\ store = <<>>
    /\ stations = <<>>
    /\ route = "none"
    /\ start = NotStr
    /\ end = NotStr
    /\ pc = "none"
    /\ session = "none"
    /\ start_date = None
    /\ end_date = None
    /\ ma_station = None
    /\ data = None
    /\ response = None

NoCall ==
    [op |-> "none", station |-> "-1", start |-> NotStr, end |-> NotStr, result |-> None]

RepeatIdle == first = NoCall /\ second = NoCall

appvars == <<store, stations, route, start, end, pc, session, start_date,
             end_date, ma_station, data, response>>

InitValidate ==
    /\ date \in ValidateInputs
    /\ vresult = None
    /\ AppIdle
    /\ RepeatIdle

Validate ==
    /\ vresult = None
    /\ vresult' = validate_date(date)
    /\ UNCHANGED <<date, first, second>>
    /\ UNCHANGED appvars

NextValidate == Validate

SpecValidate == InitValidate /\ [][NextValidate]_vars

(***************************************************************************)
(* datetime arithmetic and comparison                                      *)
(***************************************************************************)
days_before_year(y) ==
    (y - 1) * 365 + ((y - 1) \div 4) - ((y - 1) \div 100) + ((y - 1) \div 400)

RECURSIVE days_before_month(_, _)
days_before_month(y, m) ==
    IF m = 1 THEN 0 ELSE days_before_month(y, m - 1) + days_in_month(y, m - 1)

ymd2ord(y, m, d) == days_before_year(y) + days_before_month(y, m) + d

ord2ymd(n) ==
    LET y == CHOOSE c \in (n \div 366)..((n \div 365) + 1) :
                 days_before_year(c) < n /\ n <= days_before_year(c + 1)
        m == CHOOSE c \in 1..12 :
                 /\ days_before_month(y, c) < n - days_before_year(y)
                 /\ n - days_before_year(y) <= days_before_month(y, c) + days_in_month(y, c)
    IN  <<y, m, n - days_before_year(y) - days_before_month(y, m)>>

\* v - dt.timedelta(days = n) for a datetime v.
minus_days(v, n) ==
    LET o == ymd2ord(v[1], v[2], v[3]) - n IN
    IF o < 1 THEN Raise("OverflowError", "date value out of range")
    ELSE Ok(ord2ymd(o) \o <<v[4], v[5], v[6], v[7]>>)

datetime_ge(a, b) ==
    \/ a = b
    \/ \E i \in 1..7 : a[i] > b[i] /\ \A j \in 1..(i - 1) : a[j] = b[j]

\* a > b for two datetimes: field by field, most significant first.
datetime_gt(a, b) ==
    \E i \in 1..7 : a[i] > b[i] /\ \A j \in 1..(i - 1) : a[j] = b[j]

(***************************************************************************)
(* The database: bound parameters, TEXT comparison, ORDER BY               *)
(***************************************************************************)
\* A datetime bound against the TEXT column date is sent in the dialect's
\* storage format YYYY-MM-DD HH:MM:SS.ffffff.
bind_datetime(v) ==
    Pad4(v[1]) \o <<"-">> \o Pad2(v[2]) \o <<"-">> \o Pad2(v[3]) \o <<" ">>
      \o Pad2(v[4]) \o <<":">> \o Pad2(v[5]) \o <<":">> \o Pad2(v[6])
      \o <<".">> \o Pad6(v[7])

\* a < b for two TEXT values under the BINARY collation.
text_lt(a, b) ==
    \E i \in 1..(Len(b)) :
        /\ \A j \in 1..(i - 1) : j <= Len(a) /\ a[j] = b[j]
        /\ \/ i > Len(a)
           \/ i <= Len(a) /\ CharCode(a[i]) < CharCode(b[i])

text_ge(a, b) == ~text_lt(a, b)

text_le(a, b) == ~text_lt(b, a)

RECURSIVE insert_desc(_, _)
insert_desc(sorted, r) ==
    IF sorted = <<>> THEN <<r>>
    ELSE IF text_lt(Head(sorted).date, r.date) THEN <<r>> \o sorted
    ELSE <<Head(sorted)>> \o insert_desc(Tail(sorted), r)

RECURSIVE order_by_date_desc(_)
\* ORDER BY date DESC; rows with equal dates keep their rowid order.
order_by_date_desc(rows) ==
    IF rows = <<>> THEN <<>>
    ELSE insert_desc(order_by_date_desc(SubSeq(rows, 1, Len(rows) - 1)), rows[Len(rows)])

(***************************************************************************)
(* The query helpers                                                       *)
(***************************************************************************)
MinusOne == NotStr          \* the default -1 of the parameter end
NoStation == "-1"           \* the default -1 of the parameter station

year_from_most_recent_data(rows, station) ==
    LET ordered == order_by_date_desc(rows)
        InStation(r) == r.station = station
        year_data == IF station = NoStation THEN ordered ELSE SelectSeq(ordered, InStation)
    IN  IF year_data = <<>>
        THEN Raise("TypeError", "'NoneType' object is not subscriptable")
        ELSE LET most_recent_measurement == year_data[1].date
                 date_num_list == date_string_to_nums(most_recent_measurement)
             IN  IF date_num_list.kind = "raise" THEN date_num_list
                 ELSE LET most_recent == datetime(date_num_list.value) IN
                      IF most_recent.kind = "raise" THEN most_recent
                      ELSE LET year_from_most_recent == minus_days(most_recent.value, 365) IN
                           IF year_from_most_recent.kind = "raise" THEN year_from_most_recent
                           ELSE LET InWindow(r) ==
                                        text_ge(r.date, bind_datetime(year_from_most_recent.value))
                                IN  Ok(SelectSeq(year_data, InWindow))

CountOf(rows, st) == Cardinality({i \in 1..Len(rows) : rows[i].station = st})

\* The possible values of stations_by_rows[0][0]: GROUP BY station ORDER BY
\* count DESC leaves the order of groups with equal counts to the database.
most_active_station(rows) ==
    IF rows = <<>> THEN {Raise("IndexError", "list index out of range")}
    ELSE LET groups == {rows[i].station : i \in 1..Len(rows)} IN
         {Ok(st) : st \in {g \in groups : \A h \in groups : CountOf(rows, g) >= CountOf(rows, h)}}

RECURSIVE SumTobs(_)
SumTobs(rows) == IF rows = <<>> THEN 0 ELSE Head(rows).tobs + SumTobs(Tail(rows))

\* DataFrame.dropna(): drops every row that has a null in any column
\* (station and date are never null in the table).
dropna(rows) ==
    LET Complete(r) == r.prcp # NULL /\ r.tobs # NULL
    IN  SelectSeq(rows, Complete)

calculate_range_metrics(rows, startp, endp) ==
    LET FromStart(r) == text_ge(r.date, startp.chars)
        ToEnd(r) == text_le(r.date, endp.chars)
        from_start == SelectSeq(rows, FromStart)
        from_start_vals == IF endp # MinusOne THEN SelectSeq(from_start, ToEnd) ELSE from_start
        from_start_df == dropna(from_start_vals)
        tobs == {from_start_df[i].tobs : i \in 1..Len(from_start_df)}
    IN  IF from_start_df = <<>>
        THEN Ok([tmin |-> NaN, tavg |-> <<0, 0>>, tmax |-> NaN])
        ELSE Ok([tmin |-> CHOOSE t \in tobs : \A u \in tobs : t <= u,
                 tavg |-> <<SumTobs(from_start_df), Len(from_start_df)>>,
                 tmax |-> CHOOSE t \in tobs : \A u \in tobs : t >= u])

(***************************************************************************)
(* The Flask handlers: one request against a fixed database                *)
(***************************************************************************)
MaxRows == 3

D20200101 == <<"2", "0", "2", "0", "-", "0", "1", "-", "0", "1">>
D20200102 == <<"2", "0", "2", "0", "-", "0", "1", "-", "0", "2">>
D20170823 == <<"2", "0", "1", "7", "-", "0", "8", "-", "2", "3">>
D20160823 == <<"2", "0", "1", "6", "-", "0", "8", "-", "2", "3">>
D20160822 == <<"2", "0", "1", "6", "-", "0", "8", "-", "2", "2">>

Row(st, d, p, t) == [station |-> st, date |-> d, prcp |-> p, tobs |-> t]

Rows ==
    { Row("A", D20200101, 1, 60),
      Row("A", D20200102, NULL, 62),
      Row("B", D20200101, 2, 58),
      Row("B", D20170823, 3, NULL),
      Row("A", D20160823, NULL, 70),
      Row("B", D20160822, 4, 71) }

Stores == UNION {[1..n -> Rows] : n \in 0..MaxRows}

StationTable == <<"A", "B", "A">>

AppInputs ==
    { Str(D20200101),
      Str(D20200102),
      Str(D20160823),
      Str(<<"2", "0", "2", "0", "-", "1", "3", "-", "0", "1">>),
      Str(D20200101 \o <<"-", "5">>) }

Routes == {"precipitation", "stations", "tobs", "start", "range"}

RangeError ==
    Raise("Exception", "That was not a valid date range - the end date was earlier than the start date.")

InitApp ==
    /\ store \in Stores
    /\ stations = StationTable
    /\ route = "none"
    /\ start = NotStr
    /\ end = NotStr
    /\ pc = "idle"
    /\ session = "none"
    /\ start_date = None
    /\ end_date = None
    /\ ma_station = None
    /\ data = None
    /\ response = None
    /\ date = NotStr
    /\ vresult = None
    /\ RepeatIdle

otherdev == <<date, vresult, first, second>>

\* The URL map dispatches the request to one view function.
Dispatch ==
    /\ pc = "idle"
    /\ \E r \in Routes, s \in AppInputs, e \in AppInputs :
         /\ route' = r
         /\ start' = IF r \in {"start", "range"} THEN s ELSE NotStr
         /\ end' = IF r = "range" THEN e ELSE NotStr
    /\ pc' = "entered"
    /\ UNCHANGED <<store, stations, session, start_date, end_date, ma_station, data, response>>
    /\ UNCHANGED otherdev

\* from_date_metrics: validate_date(start), the returned date is dropped.
ValidateStart ==
    /\ pc = "entered" /\ route = "start"
    /\ LET v == validate_date(start) IN
         IF v.kind = "raise"
         THEN response' = v /\ pc' = "done"
         ELSE response' = response /\ pc' = "validated"
    /\ UNCHANGED <<store, stations, route, start, end, session, start_date, end_date,
                   ma_station, data>>
    /\ UNCHANGED otherdev

\* date_range_metrics: both validations and the start_date > end_date test.
ValidateRange ==
    /\ pc = "entered" /\ route = "range"
    /\ LET sd == validate_date(start)
           ed == validate_date(end)
       IN  IF sd.kind = "raise"
           THEN /\ response' = sd /\ pc' = "done"
                /\ UNCHANGED <<start_date, end_date>>
           ELSE IF ed.kind = "raise"
           THEN /\ response' = ed /\ pc' = "done"
                /\ start_date' = sd /\ end_date' = end_date
           ELSE IF datetime_gt(sd.value, ed.value)
           THEN /\ response' = RangeError /\ pc' = "done"
                /\ start_date' = sd /\ end_date' = ed
           ELSE /\ response' = response /\ pc' = "validated"
                /\ start_date' = sd /\ end_date' = ed
    /\ UNCHANGED <<store, stations, route, start, end, session, ma_station, data>>
    /\ UNCHANGED otherdev

\* session = Session(engine)
OpenSession ==
    /\ \/ pc = "entered" /\ route \in {"precipitation", "stations", "tobs"}
       \/ pc = "validated"
    /\ session' = "open"
    /\ pc' = "opened"
    /\ UNCHANGED <<store, stations, route, start, end, start_date, end_date, ma_station,
                   data, response>>
    /\ UNCHANGED otherdev

\* A helper that raises ends the request there: nothing after the call runs.
Returned(r, nextpc) ==
    IF r.kind = "raise"
    THEN response' = r /\ data' = data /\ pc' = "done"
    ELSE response' = response /\ data' = r /\ pc' = nextpc

QueryPrecipitation ==
    /\ pc = "opened" /\ route = "precipitation"
    /\ Returned(year_from_most_recent_data(store, NoStation), "queried")
    /\ UNCHANGED <<store, stations, route, start, end, session, start_date, end_date,
                   ma_station>>
    /\ UNCHANGED otherdev

RECURSIVE distinct(_)
distinct(xs) ==
    IF xs = <<>> THEN <<>>
    ELSE LET init == distinct(SubSeq(xs, 1, Len(xs) - 1)) IN
         IF \E i \in 1..Len(init) : init[i] = xs[Len(xs)] THEN init
         ELSE Append(init, xs[Len(xs)])

QueryStations ==
    /\ pc = "opened" /\ route = "stations"
    /\ Returned(Ok(distinct(stations)), "queried")
    /\ UNCHANGED <<store, stations, route, start, end, session, start_date, end_date,
                   ma_station>>
    /\ UNCHANGED otherdev

QueryMostActive ==
    /\ pc = "opened" /\ route = "tobs"
    /\ \E m \in most_active_station(store) :
         IF m.kind = "raise"
         THEN response' = m /\ ma_station' = ma_station /\ pc' = "done"
         ELSE response' = response /\ ma_station' = m /\ pc' = "ma_found"
    /\ UNCHANGED <<store, stations, route, start, end, session, start_date, end_date, data>>
    /\ UNCHANGED otherdev

QueryStationYear ==
    /\ pc = "ma_found"
    /\ Returned(year_from_most_recent_data(store, ma_station.value), "queried")
    /\ UNCHANGED <<store, stations, route, start, end, session, start_date, end_date,
                   ma_station>>
    /\ UNCHANGED otherdev

QueryMetrics ==
    /\ pc = "opened" /\ route \in {"start", "range"}
    /\ Returned(calculate_range_metrics(store, start, IF route = "range" THEN end ELSE MinusOne),
                "queried")
    /\ UNCHANGED <<store, stations, route, start, end, session, start_date, end_date,
                   ma_station>>
    /\ UNCHANGED otherdev

\* session.close()
CloseSession ==
    /\ pc = "queried"
    /\ session' = "closed"
    /\ pc' = "closed"
    /\ UNCHANGED <<store, stations, route, start, end, start_date, end_date, ma_station,
                   data, response>>
    /\ UNCHANGED otherdev

\* { key : value for ... }: a later item replaces an earlier one with the
\* same key.
dict_of(items) ==
    { items[i] :
        i \in {k \in 1..Len(items) : \A j \in (k + 1)..Len(items) : items[j][1] # items[k][1]} }

\* The value handed to jsonify.
body_of(r, d) ==
    LET IsFloat(val) == val.prcp # NULL
        floats == SelectSeq(d, IsFloat)
    IN  CASE r = "precipitation" ->
               dict_of([i \in 1..Len(floats) |-> <<floats[i].date, floats[i].prcp>>])
          [] r = "tobs" -> dict_of([i \in 1..Len(d) |-> <<d[i].date, d[i].tobs>>])
          [] OTHER -> d

Respond ==
    /\ pc = "closed"
    /\ response' = Ok(body_of(route, data.value))
    /\ pc' = "done"
    /\ UNCHANGED <<store, stations, route, start, end, session, start_date, end_date,
                   ma_station, data>>
    /\ UNCHANGED otherdev

Next ==
    \/ Dispatch
    \/ ValidateStart
    \/ ValidateRange
    \/ OpenSession
    \/ QueryPrecipitation
    \/ QueryStations
    \/ QueryMostActive
    \/ QueryStationYear
    \/ QueryMetrics
    \/ CloseSession
    \/ Respond

Spec == InitApp /\ [][Next]_vars

(***************************************************************************)
(* Repeated-call development: one query helper called twice with the same *)
(* arguments against the same database                                     *)
(***************************************************************************)
StationArgs == {NoStation, "A", "B"}

CallResults(op, st, s, e) ==
    CASE op = "most_active_station" -> most_active_station(store)
      [] op = "year_from_most_recent_data" -> {year_from_most_recent_data(store, st)}
      [] OTHER -> {calculate_range_metrics(store, s, e)}

Call(op, st, s, e, r) == [op |-> op, station |-> st, start |-> s, end |-> e, result |-> r]

InitRepeat ==
    /\ store \in Stores
    /\ stations = StationTable
    /\ route = "none"
    /\ start = NotStr
    /\ end = NotStr
    /\ pc = "none"
    /\ session = "open"
    /\ start_date = None
    /\ end_date = None
    /\ ma_station = None
    /\ data = None
    /\ response = None
    /\ date = NotStr
    /\ vresult = None
    /\ RepeatIdle

CallMostActive ==
    /\ first.op = "none"
    /\ \E r \in CallResults("most_active_station", NoStation, NotStr, MinusOne) :
         first' = Call("most_active_station", NoStation, NotStr, MinusOne, r)
    /\ UNCHANGED <<second, date, vresult>>
    /\ UNCHANGED appvars

CallYearData ==
    /\ first.op = "none"
    /\ \E st \in StationArgs :
         \E r \in CallResults("year_from_most_recent_data", st, NotStr, MinusOne) :
           first' = Call("year_from_most_recent_data", st, NotStr, MinusOne, r)
    /\ UNCHANGED <<second, date, vresult>>
    /\ UNCHANGED appvars

CallRangeMetrics ==
    /\ first.op = "none"
    /\ \E s \in {Str(D20200101), Str(D20200102), Str(D20160823)} :
         \E e \in {MinusOne, Str(D20200101), Str(D20200102)} :
           \E r \in CallResults("calculate_range_metrics", NoStation, s, e) :
             first' = Call("calculate_range_metrics", NoStation, s, e, r)
    /\ UNCHANGED <<second, date, vresult>>
    /\ UNCHANGED appvars

CallAgain ==
    /\ first.op # "none"
    /\ second.op = "none"
    /\ \E r \in CallResults(first.op, first.station, first.start, first.end) :
         second' = Call(first.op, first.station, first.start, first.end, r)
    /\ UNCHANGED <<first, date, vresult>>
    /\ UNCHANGED appvars

NextRepeat ==
    \/ CallMostActive
    \/ CallYearData
    \/ CallRangeMetrics
    \/ CallAgain

SpecRepeat == InitRepeat /\ [][NextRepeat]_vars

(***************************************************************************)
(* Properties of validate_date                                             *)
(***************************************************************************)
\* What is written in a string that starts with dddd-dd-dd.
StartsWithDatePattern(s) ==
    /\ Len(s) >= 10
    /\ \A i \in {1, 2, 3, 4, 6, 7, 9, 10} : s[i] \in {DigitChars[k] : k \in 1..10}
    /\ s[5] = "-" /\ s[8] = "-"

Dig(c) == CHOOSE n \in 0..9 : DigitChars[n + 1] = c

WrittenYear(s) == 1000 * Dig(s[1]) + 100 * Dig(s[2]) + 10 * Dig(s[3]) + Dig(s[4])
WrittenMonth(s) == 10 * Dig(s[6]) + Dig(s[7])
WrittenDay(s) == 10 * Dig(s[9]) + Dig(s[10])

GregorianLeap(y) == (y % 4 = 0) /\ (y % 100 # 0 \/ y % 400 = 0)

MonthLength(y, m) ==
    CASE m = 2 -> IF GregorianLeap(y) THEN 29 ELSE 28
      [] m \in {4, 6, 9, 11} -> 30
      [] OTHER -> 31

CalendarDate(y, m, d) == m \in 1..12 /\ d \in 1..MonthLength(y, m)

Midnight(y, m, d) == <<y, m, d, 0, 0, 0, 0>>

Validated == vresult # None

IsDateString(d) == d.type = "str" /\ Len(d.chars) = 10 /\ StartsWithDatePattern(d.chars)

\* C2 as stated: every YYYY-MM-DD string, year 0000..9999, that names a
\* calendar date is accepted and validate_date returns that date.
C2_AllYears ==
    (Validated /\ IsDateString(date)
       /\ CalendarDate(WrittenYear(date.chars), WrittenMonth(date.chars), WrittenDay(date.chars)))
    => vresult = Ok(Midnight(WrittenYear(date.chars), WrittenMonth(date.chars),
                             WrittenDay(date.chars)))

\* C2 amended: every YYYY-MM-DD string with year 0001..9999 that names a
\* calendar date is accepted and validate_date returns the datetime with that
\* year, month and day (at midnight).
C2_YearsFrom1 ==
    (Validated /\ IsDateString(date)
       /\ WrittenYear(date.chars) >= 1
       /\ CalendarDate(WrittenYear(date.chars), WrittenMonth(date.chars), WrittenDay(date.chars)))
    => vresult = Ok(Midnight(WrittenYear(date.chars), WrittenMonth(date.chars),
                             WrittenDay(date.chars)))

C2_Witness ==
    /\ date = Str(DateString(2024, 2, 29))
    /\ vresult = Ok(Midnight(2024, 2, 29))

\* C3: for a string that matches the pattern and whose pieces parse, a month
\* outside 1..12 raises the month error and a day outside 1..days-in-month
\* raises the day error, February having 29 days exactly in Gregorian leap
\* years; for a 10-character string the parsed pieces are the written ones;
\* 2000-02-29 and 2024-02-29 are accepted, 1900-02-29 and 2023-02-29 are not.
C3_ImpossibleDatesRejected ==
    (Validated /\ date.type = "str" /\ StartsWithDatePattern(date.chars))
    => LET parsed == date_string_to_nums(date.chars)
           l == parsed.value
       IN  /\ Len(date.chars) = 10
                => /\ parsed.kind = "ok"
                   /\ l = <<WrittenYear(date.chars), WrittenMonth(date.chars),
                            WrittenDay(date.chars)>>
           /\ (parsed.kind = "ok" /\ l[2] \notin 1..12)
                => vresult = Raise("Exception", "That month does not exist")
           /\ (parsed.kind = "ok" /\ l[2] \in 1..12 /\ l[3] \notin 1..MonthLength(l[1], l[2]))
                => vresult = Raise("Exception", "That is not a valid day")
           /\ date.chars \in {DateString(2000, 2, 29), DateString(2024, 2, 29)}
                => vresult.kind = "ok"
           /\ date.chars \in {DateString(1900, 2, 29), DateString(2023, 2, 29)}
                => vresult.kind = "raise"

C3_Witness ==
    /\ date = Str(DateString(1900, 2, 29))
    /\ vresult = Raise("Exception", "That is not a valid day")

ValidDatePrefix(d) ==
    /\ d.type = "str"
    /\ StartsWithDatePattern(d.chars)
    /\ WrittenYear(d.chars) >= 1
    /\ CalendarDate(WrittenYear(d.chars), WrittenMonth(d.chars), WrittenDay(d.chars))

TrailingChars(d) == SubSeq(d.chars, 11, Len(d.chars))

PrefixDate(d) ==
    Midnight(WrittenYear(d.chars), WrittenMonth(d.chars), WrittenDay(d.chars))

\* C10 as stated (for years 0001..9999): whatever follows a valid 10-character
\* date, validate_date succeeds and returns the date of the prefix.
C10_AnyTrailingTolerated ==
    (Validated /\ ValidDatePrefix(date)) => vresult = Ok(PrefixDate(date))

\* C10 amended: after a valid 10-character date (year 0001..9999) the format
\* check never fails whatever follows; validate_date returns the date of the
\* prefix when nothing or only spaces follow; and whenever it returns, the
\* year and month are those of the prefix.
C10_FormatCheckTolerates ==
    (Validated /\ ValidDatePrefix(date))
    => /\ vresult # Raise("Exception", "That string date was not of the correct format")
       /\ (\A i \in 1..Len(TrailingChars(date)) : TrailingChars(date)[i] = " ")
            => vresult = Ok(PrefixDate(date))
       /\ vresult.kind = "ok"
            => /\ vresult.value[1] = WrittenYear(date.chars)
               /\ vresult.value[2] = WrittenMonth(date.chars)

C10_Witness ==
    /\ date = Str(DateString(2024, 2, 29) \o <<" ">>)
    /\ vresult = Ok(Midnight(2024, 2, 29))

(***************************************************************************)
(* Properties of the query helpers and the handlers                        *)
(***************************************************************************)
\* The calendar day a stored date or a 10-character parameter names.
DayNumber(chars) == ymd2ord(WrittenYear(chars), WrittenMonth(chars), WrittenDay(chars))

RowsOf(rows) == {rows[i] : i \in 1..Len(rows)}

Times(rows, r) == Cardinality({i \in 1..Len(rows) : rows[i] = r})

SameRecords(a, b) == \A r \in RowsOf(a) \cup RowsOf(b) : Times(a, r) = Times(b, r)

\* The records the range metrics are specified over.
InRange(rows, s, e) ==
    LET Wanted(r) ==
            /\ DayNumber(r.date) >= DayNumber(s.chars)
            /\ e # MinusOne => DayNumber(r.date) <= DayNumber(e.chars)
            /\ r.tobs # NULL
    IN  SelectSeq(rows, Wanted)

MetricsQueried == pc = "queried" /\ route \in {"start", "range"}

EndGiven == IF route = "range" THEN end ELSE MinusOne

\* C1: the metrics are the minimum, mean and maximum temperature of exactly
\* the records in the date range whose temperature is present, whether or
\* not their precipitation is null.
C1_MetricsOverNonNullTemperatures ==
    (MetricsQueried /\ IsDateString(start) /\ (route = "range" => IsDateString(end))
       /\ InRange(store, start, EndGiven) # <<>>)
    => LET over == InRange(store, start, EndGiven)
           temps == {over[i].tobs : i \in 1..Len(over)}
           m == data.value
       IN  /\ m.tmin = CHOOSE t \in temps : \A u \in temps : t <= u
           /\ m.tmax = CHOOSE t \in temps : \A u \in temps : t >= u
           /\ m.tavg[1] * Len(over) = SumTobs(over) * m.tavg[2]
           /\ m.tavg[2] # 0

Later(a, b) ==
    \E i \in 1..7 : a[i] > b[i] /\ \A j \in 1..(i - 1) : a[j] = b[j]

\* C4: when both path segments pass validate_date, date_range_metrics ends
\* with the range error exactly when the start date is later than the end
\* date; it does so with no session opened and no query run; otherwise
\* (equal dates included) the request opens its session and goes on to answer.
C4_RangeRejectedIffStartLater ==
    (route = "range" /\ pc \notin {"idle", "entered"}
       /\ start_date.kind = "ok" /\ end_date.kind = "ok")
    => IF Later(start_date.value, end_date.value)
       THEN /\ pc = "done"
            /\ response = RangeError
            /\ session = "none"
            /\ data.kind = "none"
       ELSE /\ response.kind # "raise"
            /\ pc # "validated" => session # "none"
            /\ pc = "done" => response.kind = "ok"

C4_Witness ==
    /\ pc = "done"
    /\ route = "range"
    /\ start = Str(D20200102)
    /\ end = Str(D20200101)
    /\ response = RangeError
    /\ session = "none"

WindowQueried == pc = "queried" /\ route \in {"precipitation", "tobs"}

\* The records the last-year window is specified over.
Considered(rows) ==
    LET Mine(r) == route = "tobs" => r.station = ma_station.value
    IN  SelectSeq(rows, Mine)

\* C5: the window holds exactly the considered records dated on or after
\* the most recent considered date minus 365 days.
C5_WindowFromLowerBoundInclusive ==
    WindowQueried
    => LET mine == Considered(store)
           latest == CHOOSE d \in {DayNumber(mine[i].date) : i \in 1..Len(mine)} :
                         \A i \in 1..Len(mine) : DayNumber(mine[i].date) <= d
           Recent(r) == DayNumber(r.date) >= latest - 365
       IN  SameRecords(data.value, SelectSeq(mine, Recent))

\* C6: no request ends with its session still open.
C6_SessionClosedOnEveryExit == pc = "done" => session # "open"

\* C7: the last-year window over a table with no records fails with the
\* distinct no-data error.
C7_EmptyStoreIsNoDataError ==
    (pc = "done" /\ route = "precipitation" /\ store = <<>>)
    => response.kind = "raise" /\ response.exc = "NoDataError"

\* C8: when no record remains after the date filter and the null drop, the
\* metrics are an explicit no-data result, not NaN.
C8_NoDataIsExplicit ==
    (MetricsQueried /\ data.kind = "ok")
    => /\ data.value.tmin # NaN
       /\ data.value.tmax # NaN
       /\ data.value.tavg[2] # 0

\* C9: a query helper called twice with the same arguments against the same
\* table returns the same result.
C9_RepeatedCallSameResult == second.op # "none" => second.result = first.result

====
